---- MODULE Spec2Model ----
(***************************************************************************)
(* AERONET Explorer: the rate limiter of AeronetAPI, the parsing done by   *)
(* AeronetAPI.get_aod_data, the cleaning, column resolution and statistics *)
(* of AeronetDataProcessor, and the reruns of the application's main().    *)
(*                                                                         *)
(* Text is a sequence of one-character strings, so that startswith,        *)
(* substring search and upper() are computed on the characters.            *)
(* Numbers in cells are integers (an AOD of 0.1 is written 1: the          *)
(* statistics modelled do not depend on the unit); time is in clock ticks. *)
(***************************************************************************)
EXTENDS Integers, Sequences, FiniteSets, TLC

VARIABLES
    clock,              \* time.time(), in ticks
    last_request_time,  \* AeronetAPI.last_request_time
    tpc,                \* position of each caller of get_aod_data
    wake,               \* the clock value at which a sleeping caller may resume
    started,            \* the clock values at which calls left _respect_rate_limit
    response,           \* response.text.strip().split('\n') of the measurement request
    stage,              \* position in the chain fetch -> clean -> resolve -> statistics
    df_raw,             \* what get_aod_data returned (or the error it raised)
    df_clean,           \* what clean_data returned
    aod_columns,        \* what extract_aod_columns returned
    stats,              \* calculate_statistics per wavelength asked so far
    mpc,                \* position of the current rerun of main()
    session_state,      \* st.session_state
    inputs,             \* the widget values of the current rerun
    run_log,            \* the HTTP requests and the milestones of the current rerun, in order
    sites_cache,        \* st.cache_data entry of get_sites_list
    sites_response,     \* what requests.get(sites_url) met
    sites_df,           \* what get_sites_list gave for it
    call_log            \* one entry per finished call of get_aod_data on the instance

rateVars == <<clock, last_request_time, tpc, wake, started>>
pipeVars == <<response, stage, df_raw, df_clean, aod_columns, stats>>
appVars == <<mpc, session_state, inputs, run_log, sites_cache>>
siteVars == <<sites_response, sites_df>>
vars == <<clock, last_request_time, tpc, wake, started,
          response, stage, df_raw, df_clean, aod_columns, stats,
          mpc, session_state, inputs, run_log, sites_cache,
          sites_response, sites_df, call_log>>

-----------------------------------------------------------------------------
(* Bounds of the model *)

\* clock ticks per second
TicksPerSecond == 2
\* how many ticks the clock may advance after construction
Horizon == 6
\* calls of get_aod_data observed
MaxCalls == 3
\* concurrent callers in the overlapping-callers specification
NThreads == 2

-----------------------------------------------------------------------------
(* Text *)

LowerAlpha == <<"a","b","c","d","e","f","g","h","i","j","k","l","m","n","o","p","q","r","s","t","u","v","w","x","y","z">>
UpperAlpha == <<"A","B","C","D","E","F","G","H","I","J","K","L","M","N","O","P","Q","R","S","T","U","V","W","X","Y","Z">>
Digits == <<"0","1","2","3","4","5","6","7","8","9">>

\* str.startswith
StartsWith(s, p) == Len(s) >= Len(p) /\ SubSeq(s, 1, Len(p)) = p

\* the `in` operator on two strings
Contains(s, sub) ==
    \E i \in 0..(Len(s) - Len(sub)) : SubSeq(s, i + 1, i + Len(sub)) = sub

UpperChar(c) ==
    IF \E i \in 1..Len(LowerAlpha) : LowerAlpha[i] = c
    THEN UpperAlpha[CHOOSE i \in 1..Len(LowerAlpha) : LowerAlpha[i] = c]
    ELSE c

\* str.upper
Upper(s) == [i \in 1..Len(s) |-> UpperChar(s[i])]

RECURSIVE StrNat(_)
StrNat(n) == IF n < 10 THEN <<Digits[n + 1]>>
             ELSE StrNat(n \div 10) \o <<Digits[(n % 10) + 1]>>

\* str() of an integer
Str(n) == IF n < 0 THEN <<"-">> \o StrNat(0 - n) ELSE StrNat(n)

-----------------------------------------------------------------------------
(* Rate limiter: AeronetAPI._respect_rate_limit *)

\* delay: float = 1.0 (seconds), in ticks
Delay == 1 * TicksPerSecond

\* time.time() when the AeronetAPI is constructed: the epoch clock is far
\* beyond one delay, so the first call finds elapsed >= delay
StartTime == Delay

MaxTime == StartTime + Horizon

Threads == 1..NThreads

\* how long _respect_rate_limit sleeps, from `elapsed` of line 29
RateLimitSleepNever(elapsed, delay) == 0

RateLimitSleep(elapsed, delay) ==
    IF elapsed < delay THEN delay - elapsed ELSE 0

\* get_aod_data is entered and calls _respect_rate_limit
Call(t) ==
    /\ tpc[t] = "idle"
    /\ Len(started) < MaxCalls
    /\ tpc' = [tpc EXCEPT ![t] = "limit"]
    /\ UNCHANGED <<clock, last_request_time, wake, started>>

\* elapsed = time.time() - self.last_request_time; then time.sleep begins,
\* or is skipped
ReadElapsed(t) ==
    /\ tpc[t] = "limit"
    /\ LET elapsed == clock - last_request_time
           nap == RateLimitSleep(elapsed, Delay)
       IN  IF nap > 0
           THEN /\ wake' = [wake EXCEPT ![t] = clock + nap]
                /\ tpc' = [tpc EXCEPT ![t] = "sleep"]
           ELSE /\ tpc' = [tpc EXCEPT ![t] = "stamp"]
                /\ UNCHANGED wake
    /\ UNCHANGED <<clock, last_request_time, started>>

\* time.sleep returns, no sooner than asked
WakeUp(t) ==
    /\ tpc[t] = "sleep"
    /\ clock >= wake[t]
    /\ tpc' = [tpc EXCEPT ![t] = "stamp"]
    /\ UNCHANGED <<clock, last_request_time, wake, started>>

\* self.last_request_time = time.time(); the call goes on to its request
Stamp(t) ==
    /\ tpc[t] = "stamp"
    /\ last_request_time' = clock
    /\ started' = Append(started, clock)
    /\ tpc' = [tpc EXCEPT ![t] = "request"]
    /\ UNCHANGED <<clock, wake>>

\* the rest of get_aod_data: it returns a table or raises
Finish(t) ==
    /\ tpc[t] = "request"
    /\ tpc' = [tpc EXCEPT ![t] = "idle"]
    /\ UNCHANGED <<clock, last_request_time, wake, started>>

Tick ==
    /\ clock < MaxTime
    /\ clock' = clock + 1
    /\ UNCHANGED <<last_request_time, tpc, wake, started>>

InitRate ==
    /\ clock = StartTime
    /\ last_request_time = 0
    /\ tpc = [t \in Threads |-> "idle"]
    /\ wake = [t \in Threads |-> 0]
    /\ started = <<>>

-----------------------------------------------------------------------------
(* Tables *)

\* rows of data after the header in a generated response
MaxRows == 2
\* metadata lines before the header in a generated response
MaxMeta == 6
\* time-of-day values per day
DayTicks == 2

\* the missing-value code of the service
Sentinel == -999

\* A cell is a number, a string, or missing.  A string cell carries the value
\* it has when read as a date or as a time of day (Bad when it is neither).
Bad == -1
NaN == [k |-> "nan", v |-> 0]
NumCell(n) == [k |-> "num", v |-> n]
StrCell(n) == [k |-> "str", v |-> n]

\* A field of a line of the response: its characters, and the cell pandas
\* reads from it when the line is a data row.
NameField(txt) == [txt |-> txt, cell |-> StrCell(Bad)]
NumField(n) == [txt |-> Str(n), cell |-> NumCell(n)]
DateField(d) == [txt |-> Str(d) \o <<":","0","1",":","2","0","2","0">>, cell |-> StrCell(d)]
TimeField(t) == [txt |-> Str(t) \o <<":","0","0",":","0","0">>, cell |-> StrCell(t)]

ColDateDD == <<"D","a","t","e","(","d","d",":","m","m",":","y","y","y","y",")">>
ColTimeHMS == <<"T","i","m","e","(","h","h",":","m","m",":","s","s",")">>
ColDateGMT == <<"D","a","t","e","_","G","M","T">>
ColTimeGMT == <<"T","i","m","e","_","G","M","T">>
ColAOD440 == <<"A","O","D","_","4","4","0","n","m">>
ColAOD440alt == <<"A","O","D","4","4","0","_","a","l","t">>
ColAOD500 == <<"A","O","D","_","5","0","0","n","m">>
ColSite == <<"A","E","R","O","N","E","T","_","S","i","t","e">>
ColDay == <<"D","a","y">>
ColHour == <<"H","o","u","r">>
ColOzone == <<"O","z","o","n","e">>
ColDatetime == <<"d","a","t","e","t","i","m","e">>
TxtVersion == <<"V","e","r","s","i","o","n"," ","3">>
TxtGSFC == <<"G","S","F","C">>
TxtUnnamed == <<"U","n","n","a","m","e","d">>
MarkerDD == ColDateDD
MarkerDate == <<"D","a","t","e","_">>
MarkerTime == <<"T","i","m","e","_">>
MarkerAOD == <<"A","O","D">>

\* pd.DataFrame(): rows carry the index label they had when parsed
EmptyDataFrame == [columns |-> <<>>, numeric |-> <<>>, rows |-> <<>>, has_datetime |-> FALSE]

\* df.empty
IsEmpty(df) == Len(df.rows) = 0 \/ (Len(df.columns) = 0 /\ ~df.has_datetime)

\* df.columns, the added 'datetime' column last
Columns(df) == IF df.has_datetime THEN Append(df.columns, ColDatetime) ELSE df.columns

\* the position of the column called `name` (0 when there is none)
ColumnIndex(df, name) ==
    IF \E i \in 1..Len(df.columns) : df.columns[i] = name
    THEN CHOOSE i \in 1..Len(df.columns) :
            /\ df.columns[i] = name
            /\ \A j \in 1..(i - 1) : df.columns[j] # name
    ELSE 0

\* select_dtypes(include=[np.number]): the dtype read_csv gave the column
IsNumericColumn(df, i) == df.numeric[i]

Min(S) == CHOOSE x \in S : \A y \in S : x <= y
Max(S) == CHOOSE x \in S : \A y \in S : x >= y

-----------------------------------------------------------------------------
(* AeronetAPI.get_aod_data: from the response text to the table *)

RECURSIVE JoinComma(_)
JoinComma(fields) ==
    IF Len(fields) = 0 THEN <<>>
    ELSE IF Len(fields) = 1 THEN fields[1].txt
    ELSE fields[1].txt \o <<",">> \o JoinComma(Tail(fields))

\* line.startswith('Date(dd:mm:yyyy)') or line.startswith('Date_')
IsHeaderLine(line) ==
    \/ StartsWith(JoinComma(line), MarkerDD)
    \/ StartsWith(JoinComma(line), MarkerDate)

\* the fixed offset assumed when no header is found
FallbackLine == 6

\* the loop of lines 110-114: the index left in data_start
ScanDataStart(lines) ==
    LET hits == {i \in 0..(Len(lines) - 1) : IsHeaderLine(lines[i + 1])}
    IN  IF hits = {} THEN 0 ELSE Min(hits)

\* lines 110-118: data_start
DataStart(lines) ==
    LET data_start == ScanDataStart(lines)
    IN  IF data_start = 0 THEN Min({FallbackLine, Len(lines) - 1}) ELSE data_start

\* pd.read_csv of the lines from the header on.  The first line names the
\* columns; a first data row with more fields than the header makes the extra
\* leading fields the index; a later row with still more fields is a
\* tokenizing error; a short row is padded with missing cells.  A column with
\* rows is numeric when every cell of it is a number or missing; in any other
\* column the cells stay strings.
ReadCsv(lines) ==
    LET header == lines[1]
        n == Len(header)
        data == Tail(lines)
        lead == IF Len(data) = 0 \/ Len(data[1]) <= n THEN 0 ELSE Len(data[1]) - n
        cols == [i \in 1..n |-> IF header[i].txt = <<>> THEN TxtUnnamed ELSE header[i].txt]
        read(j, i) == IF lead + i <= Len(data[j]) THEN data[j][lead + i].cell ELSE NaN
        numeric == [i \in 1..n |->
                      Len(data) > 0 /\ \A j \in 1..Len(data) : read(j, i).k # "str"]
        typed(j, i) == IF ~numeric[i] /\ read(j, i).k = "num" THEN StrCell(Bad) ELSE read(j, i)
    IN  IF \E j \in 1..Len(data) : Len(data[j]) > n + lead
        THEN [ok |-> FALSE, df |-> EmptyDataFrame]
        ELSE [ok |-> TRUE,
              df |-> [columns |-> cols,
                      numeric |-> numeric,
                      rows |-> [j \in 1..Len(data) |->
                                  [id |-> j - 1,
                                   cells |-> [i \in 1..n |-> typed(j, i)],
                                   datetime |-> Bad]],
                      has_datetime |-> FALSE]]

\* pd.to_datetime of a date string and a time string joined by ' '
ToDatetime(d, t) ==
    IF d.k = "str" /\ d.v # Bad /\ t.k = "str" /\ t.v # Bad
    THEN d.v * DayTicks + t.v ELSE Bad

\* pd.to_datetime of a date string alone
ToDate(d) == IF d.k = "str" /\ d.v # Bad THEN d.v * DayTicks ELSE Bad

\* lines 127-136: the datetime of every row, or an error
\* (Bad in the result stands for the exception to_datetime raises)
ResolveDatetime(df) ==
    LET cols == df.columns
        dd == ColumnIndex(df, ColDateDD)
        hms == ColumnIndex(df, ColTimeHMS)
        dates == {i \in 1..Len(cols) : Contains(cols[i], MarkerDate)}
        times == {i \in 1..Len(cols) : Contains(cols[i], MarkerTime)}
    IN  IF dd # 0
        THEN IF hms = 0
             THEN [found |-> TRUE, ok |-> FALSE, ts |-> <<>>]
             ELSE LET ts == [j \in 1..Len(df.rows) |->
                               ToDatetime(df.rows[j].cells[dd], df.rows[j].cells[hms])]
                  IN  [found |-> TRUE, ok |-> \A j \in 1..Len(ts) : ts[j] # Bad, ts |-> ts]
        ELSE IF dates # {}
        THEN LET ts == [j \in 1..Len(df.rows) |->
                          IF times # {}
                          THEN ToDatetime(df.rows[j].cells[Min(dates)], df.rows[j].cells[Min(times)])
                          ELSE ToDate(df.rows[j].cells[Min(dates)])]
             IN  [found |-> TRUE, ok |-> \A j \in 1..Len(ts) : ts[j] # Bad, ts |-> ts]
        ELSE [found |-> FALSE, ok |-> TRUE, ts |-> <<>>]

Injective(p) == \A i, j \in DOMAIN p : p[i] = p[j] => i = j

\* no sort at all
SortValuesSkipped(rows) == {rows}

\* df.sort_values('datetime'): ascending; the default sort kind is not a
\* stable one, so rows of equal datetime come out in any order
SortValues(rows) ==
    LET n == Len(rows)
    IN  {[i \in 1..n |-> rows[p[i]]] :
            p \in {q \in [1..n -> 1..n] :
                     /\ Injective(q)
                     /\ \A i \in 1..(n - 1) : rows[q[i]].datetime <= rows[q[i + 1]].datetime}}

RaisedRequest == [err |-> "request", df |-> EmptyDataFrame]
RaisedParse == [err |-> "parse", df |-> EmptyDataFrame]
Returned(df) == [err |-> "none", df |-> df]

\* the empty text goes on to pd.read_csv, which raises on it
EmptyBodyRaises == {RaisedParse}

\* lines 103-104: if not response.text.strip(): return pd.DataFrame()
EmptyBodyResult == {Returned(EmptyDataFrame)}

\* Every result get_aod_data can give for a response: status is "ok" or
\* "error" (a transport failure or a non-2xx status), lines is
\* response.text.strip().split('\n') (no lines for an empty body).
GetAodData(status, lines) ==
    IF status # "ok" THEN {RaisedRequest}
    ELSE IF Len(lines) = 0 THEN EmptyBodyResult
    ELSE
      LET data_start == DataStart(lines)
          parsed == ReadCsv(SubSeq(lines, data_start + 1, Len(lines)))
          df == parsed.df
          res == ResolveDatetime(df)
      IN  IF ~parsed.ok THEN {RaisedParse}
          ELSE IF IsEmpty(df) THEN {Returned(df)}
          ELSE IF ~res.found THEN {Returned(df)}
          ELSE IF ~res.ok THEN {RaisedParse}
          ELSE {Returned([df EXCEPT !.rows = sorted, !.has_datetime = TRUE]) :
                   sorted \in SortValues([j \in 1..Len(df.rows) |->
                                 [df.rows[j] EXCEPT !.datetime = res.ts[j]]])}


-----------------------------------------------------------------------------
(* AeronetDataProcessor *)

\* self.aod_wavelengths
AodWavelengths == <<340, 380, 440, 500, 675, 870, 1020>>

WavelengthSet == {AodWavelengths[i] : i \in 1..Len(AodWavelengths)}

\* str(wavelength) for the wavelengths of the list
WavelengthText == [i \in 1..Len(AodWavelengths) |-> Str(AodWavelengths[i])]

\* str(wavelength) in col and 'AOD' in col.upper(), for the i-th wavelength
MatchesWavelength(col, i) ==
    Contains(col, WavelengthText[i]) /\ Contains(Upper(col), MarkerAOD)

Put(f, k, v) == [x \in (DOMAIN f) \cup {k} |-> IF x = k THEN v ELSE f[x]]

\* the loop over df.columns of lines 18-23: each column is bound to the first
\* wavelength of the list it matches, replacing what that wavelength was bound to
RECURSIVE ExtractLoop(_, _)
ExtractLoop(cols, acc) ==
    IF Len(cols) = 0 THEN acc
    ELSE LET col == Head(cols)
             hits == {i \in 1..Len(AodWavelengths) : MatchesWavelength(col, i)}
         IN  ExtractLoop(Tail(cols),
                 IF hits = {} THEN acc ELSE Put(acc, AodWavelengths[Min(hits)], col))

\* extract_aod_columns: wavelength -> column name
ExtractAodColumns(df) == ExtractLoop(Columns(df), <<>>)

\* nothing is replaced
ReplaceInvalidNone(df) == df

\* lines 35-36: -999 becomes NaN in the numeric columns
ReplaceInvalid(df) ==
    [df EXCEPT !.rows =
        [j \in 1..Len(df.rows) |->
            [df.rows[j] EXCEPT !.cells =
                [i \in 1..Len(df.columns) |->
                    IF IsNumericColumn(df, i) /\ df.rows[j].cells[i] = NumCell(Sentinel)
                    THEN NaN ELSE df.rows[j].cells[i]]]]]

\* df.dropna(subset=names, how='any')
DropNaAny(df, names) ==
    LET keep(row) == \A w \in DOMAIN names : row.cells[ColumnIndex(df, names[w])] # NaN
    IN  [df EXCEPT !.rows = SelectSeq(df.rows, keep)]

\* df.dropna(subset=names, how='all')
DropNaAll(df, names) ==
    LET keep(row) == \E w \in DOMAIN names : row.cells[ColumnIndex(df, names[w])] # NaN
    IN  [df EXCEPT !.rows = SelectSeq(df.rows, keep)]

\* clean_data
CleanData(df) ==
    IF IsEmpty(df) THEN df
    ELSE LET replaced == ReplaceInvalid(df)
             aod_cols == ExtractAodColumns(replaced)
         IN  IF DOMAIN aod_cols # {} THEN DropNaAll(replaced, aod_cols) ELSE replaced

\* the result {} of calculate_statistics
NoStatistics == [empty |-> TRUE, raised |-> FALSE, count |-> 0, sum |-> 0,
                 median_x2 |-> 0, min |-> 0, max |-> 0]

\* data.mean() of a column of strings raises
StatisticsRaised == [NoStatistics EXCEPT !.empty = FALSE, !.raised = TRUE]

RECURSIVE SumSeq(_)
SumSeq(xs) == IF Len(xs) = 0 THEN 0 ELSE Head(xs) + SumSeq(Tail(xs))

\* the k-th smallest of the values xs (k from 1)
OrderStatistic(xs, k) ==
    CHOOSE v \in {xs[i] : i \in 1..Len(xs)} :
        /\ Cardinality({i \in 1..Len(xs) : xs[i] < v}) < k
        /\ Cardinality({i \in 1..Len(xs) : xs[i] <= v}) >= k

\* data.median(), doubled: the middle value, or the mean of the two middle ones
MedianX2(xs) ==
    LET n == Len(xs)
    IN  IF n % 2 = 1 THEN 2 * OrderStatistic(xs, (n + 1) \div 2)
        ELSE OrderStatistic(xs, n \div 2) + OrderStatistic(xs, n \div 2 + 1)

\* df[col_name].dropna() taken as df[col_name]: missing cells are kept
DropNaKeepsAll(cells) == cells

\* df[col_name].dropna()
DropNa(cells) ==
    LET keep(c) == c # NaN
    IN  SelectSeq(cells, keep)

\* lines 50-68 of calculate_statistics, aod_cols being what line 48 computed
\* (mean is sum / count; std and the quartiles are not modelled)
StatisticsOf(df, aod_cols, wavelength) ==
    IF wavelength \notin DOMAIN aod_cols THEN NoStatistics
    ELSE LET col == ColumnIndex(df, aod_cols[wavelength])
             data == DropNa([j \in 1..Len(df.rows) |-> df.rows[j].cells[col]])
             xs == [j \in 1..Len(data) |-> data[j].v]
         IN  IF Len(data) = 0 THEN NoStatistics
             ELSE IF \E j \in 1..Len(data) : data[j].k = "str" THEN StatisticsRaised
             ELSE [empty |-> FALSE, raised |-> FALSE,
                   count |-> Len(xs),
                   sum |-> SumSeq(xs),
                   median_x2 |-> MedianX2(xs),
                   min |-> Min({xs[j] : j \in 1..Len(xs)}),
                   max |-> Max({xs[j] : j \in 1..Len(xs)})]

\* calculate_statistics
CalculateStatistics(df, wavelength) ==
    StatisticsOf(df, ExtractAodColumns(df), wavelength)

-----------------------------------------------------------------------------
(* Responses of the measurement endpoint *)

\* The layouts of a response.  "dd": header of the Date(dd:mm:yyyy)
\* convention first in its line; "gmt": the Date_ convention with a time
\* column; "dateonly": the Date_ convention without one; "site": the
\* Date(dd:mm:yyyy) convention behind a site column; "notime": a
\* Date(dd:mm:yyyy) column without its time column; "unknown": no date
\* column of either convention; "bare": data rows without any header.
Layouts == {"dd", "gmt", "dateonly", "site", "notime", "unknown", "bare"}

HeaderNames(layout) ==
    CASE layout = "dd" -> <<ColDateDD, ColTimeHMS, ColAOD440, ColAOD440alt>>
      [] layout = "gmt" -> <<ColDateGMT, ColTimeGMT, ColAOD440, ColAOD500>>
      [] layout = "dateonly" -> <<ColDateGMT, ColAOD440, ColOzone>>
      [] layout = "site" -> <<ColSite, ColDateDD, ColTimeHMS, ColAOD440, ColOzone>>
      [] layout = "notime" -> <<ColDateDD, ColAOD440, ColAOD500>>
      [] layout = "unknown" -> <<ColDay, ColHour, ColAOD440, ColAOD500>>
      [] OTHER -> <<>>

HeaderLines(layout) ==
    IF layout = "bare" THEN <<>>
    ELSE <<[i \in 1..Len(HeaderNames(layout)) |-> NameField(HeaderNames(layout)[i])]>>

\* one measurement: day, time of day, and two numeric values
Measurements == [d : {1, 2}, t : {0, 1}, a : {Sentinel, 1}, b : {Sentinel, 2}]

\* the measurements used in responses: day 1 at time 1 and day 2 at time 0,
\* with both values missing, the second missing, or none
RowValues == {m \in Measurements : m.d + m.t = 2 /\ (m.a = Sentinel => m.b = Sentinel)}

RowLine(layout, m) ==
    CASE layout \in {"dateonly", "notime"} -> <<DateField(m.d), NumField(m.a), NumField(m.b)>>
      [] layout = "site" ->
            <<NameField(TxtGSFC), DateField(m.d), TimeField(m.t), NumField(m.a), NumField(m.b)>>
      [] OTHER -> <<DateField(m.d), TimeField(m.t), NumField(m.a), NumField(m.b)>>

MetaLine == <<NameField(TxtVersion)>>

Body(meta, layout, ms) ==
    [i \in 1..meta |-> MetaLine] \o HeaderLines(layout)
        \o [j \in 1..Len(ms) |-> RowLine(layout, ms[j])]

RowSeqs == UNION {[1..n -> RowValues] : n \in 0..MaxRows}

Bodies == {Body(meta, layout, ms) : meta \in 0..MaxMeta, layout \in Layouts, ms \in RowSeqs}

Responses == {[status |-> "error", lines |-> <<>>]}
                \cup {[status |-> "ok", lines |-> b] : b \in Bodies}

-----------------------------------------------------------------------------
(* The chain get_aod_data -> clean_data -> extract_aod_columns ->          *)
(* calculate_statistics on one response                                    *)

Pending == [err |-> "pending", df |-> EmptyDataFrame]

\* api.get_aod_data(...)
Fetch ==
    /\ stage = "request"
    /\ \E r \in GetAodData(response.status, response.lines) :
          /\ df_raw' = r
          /\ stage' = IF r.err = "none" THEN "fetched" ELSE "raised"
    /\ UNCHANGED <<response, df_clean, aod_columns, stats>>

\* processor.clean_data(raw_data)
Clean ==
    /\ stage = "fetched"
    /\ df_clean' = CleanData(df_raw.df)
    /\ stage' = "cleaned"
    /\ UNCHANGED <<response, df_raw, aod_columns, stats>>

\* processor.extract_aod_columns(aod_data)
Resolve ==
    /\ stage = "cleaned"
    /\ aod_columns' = ExtractAodColumns(df_clean)
    /\ stage' = "resolved"
    /\ UNCHANGED <<response, df_raw, df_clean, stats>>

\* processor.calculate_statistics(aod_data, wavelength) for every wavelength
\* (each call resolves the columns of the same table anew: resolved once here)
Statistics ==
    /\ stage = "resolved"
    /\ \E aod_cols \in {ExtractAodColumns(df_clean)} :
          stats' = [w \in WavelengthSet |-> StatisticsOf(df_clean, aod_cols, w)]
    /\ stage' = "done"
    /\ UNCHANGED <<response, df_raw, df_clean, aod_columns>>

InitPipeIdle ==
    /\ response = [status |-> "ok", lines |-> <<>>]
    /\ stage = "off"
    /\ df_raw = Pending
    /\ df_clean = EmptyDataFrame
    /\ aod_columns = <<>>
    /\ stats = <<>>

InitSitesIdle ==
    /\ sites_response = <<>>
    /\ sites_df = <<>>
    /\ call_log = <<>>

InitAppIdle ==
    /\ mpc = "off"
    /\ session_state = <<>>
    /\ inputs = <<>>
    /\ run_log = <<>>
    /\ sites_cache = <<>>

InitPipe ==
    /\ response \in Responses
    /\ stage = "request"
    /\ df_raw = Pending
    /\ df_clean = EmptyDataFrame
    /\ aod_columns = <<>>
    /\ stats = <<>>

Init == InitPipe /\ InitRate /\ InitAppIdle /\ InitSitesIdle

Next ==
    \/ Fetch /\ UNCHANGED rateVars /\ UNCHANGED appVars /\ UNCHANGED siteVars /\ UNCHANGED call_log
    \/ Clean /\ UNCHANGED rateVars /\ UNCHANGED appVars /\ UNCHANGED siteVars /\ UNCHANGED call_log
    \/ Resolve /\ UNCHANGED rateVars /\ UNCHANGED appVars /\ UNCHANGED siteVars /\ UNCHANGED call_log
    \/ Statistics /\ UNCHANGED rateVars /\ UNCHANGED appVars /\ UNCHANGED siteVars /\ UNCHANGED call_log

Spec == Init /\ [][Next]_vars

-----------------------------------------------------------------------------
(* Callers of get_aod_data on one AeronetAPI *)

RateStep(t) ==
    \/ Call(t) /\ UNCHANGED pipeVars /\ UNCHANGED appVars /\ UNCHANGED siteVars /\ UNCHANGED call_log
    \/ ReadElapsed(t) /\ UNCHANGED pipeVars /\ UNCHANGED appVars /\ UNCHANGED siteVars /\ UNCHANGED call_log
    \/ WakeUp(t) /\ UNCHANGED pipeVars /\ UNCHANGED appVars /\ UNCHANGED siteVars /\ UNCHANGED call_log
    \/ Stamp(t) /\ UNCHANGED pipeVars /\ UNCHANGED appVars /\ UNCHANGED siteVars /\ UNCHANGED call_log
    \/ Finish(t) /\ UNCHANGED pipeVars /\ UNCHANGED appVars /\ UNCHANGED siteVars /\ UNCHANGED call_log

TickStep == Tick /\ UNCHANGED pipeVars /\ UNCHANGED appVars /\ UNCHANGED siteVars /\ UNCHANGED call_log

InitCallers == InitRate /\ InitPipeIdle /\ InitAppIdle /\ InitSitesIdle

\* one caller: its calls follow one another
NextSequential == TickStep \/ RateStep(1)

SpecSequential == InitCallers /\ [][NextSequential]_vars

\* callers on several threads, their steps interleaved
NextThreads == TickStep \/ \E t \in Threads : RateStep(t)

SpecThreads == InitCallers /\ [][NextThreads]_vars


-----------------------------------------------------------------------------
(* Tables given directly to extract_aod_columns and calculate_statistics *)

\* columns of a table given directly
MaxCols == 3
\* cells of the measured column of a table given directly
MaxVals == 4

ColAod870 == <<"a","o","d","_","8","7","0">>
ColExact440 == <<"E","x","a","c","t","_","W","a","v","e","l","e","n","g","t","h","s","_","o","f","_","A","O","D","(","u","m",")","_","4","4","0","n","m">>
ColAngstrom == <<"4","4","0","-","8","7","0","_","A","n","g","s","t","r","o","m">>

ColumnNames == {ColAOD440, ColAOD440alt, ColExact440, ColAOD500, ColAod870, ColAngstrom, ColOzone}

\* a table of numeric columns, its index labels 0, 1, ...
Table(cols, rows) ==
    [columns |-> cols,
     numeric |-> [i \in 1..Len(cols) |-> TRUE],
     rows |-> [j \in 1..Len(rows) |-> [id |-> j - 1, cells |-> rows[j], datetime |-> Bad]],
     has_datetime |-> FALSE]

\* tables of one row, over every choice and order of distinct column names
ColumnTables ==
    {Table(cols, <<[i \in 1..Len(cols) |-> NumCell(i)]>>) :
        cols \in {c \in UNION {[1..n -> ColumnNames] : n \in 1..MaxCols} : Injective(c)}}

\* tables of one measured column, over every choice of its cells
ValueTables ==
    {Table(<<ColAOD440>>, [j \in 1..Len(vs) |-> <<vs[j]>>]) :
        vs \in UNION {[1..n -> {NaN, NumCell(1), NumCell(2), NumCell(4)}] : n \in 0..MaxVals}}

InitTable ==
    /\ response = [status |-> "ok", lines |-> <<>>]
    /\ stage = "cleaned"
    /\ df_raw = Pending
    /\ df_clean \in ColumnTables \cup ValueTables
    /\ aod_columns = <<>>
    /\ stats = <<>>
    /\ InitRate
    /\ InitAppIdle
    /\ InitSitesIdle

NextTable ==
    \/ Resolve /\ UNCHANGED rateVars /\ UNCHANGED appVars /\ UNCHANGED siteVars /\ UNCHANGED call_log
    \/ Statistics /\ UNCHANGED rateVars /\ UNCHANGED appVars /\ UNCHANGED siteVars /\ UNCHANGED call_log

SpecTable == InitTable /\ [][NextTable]_vars

-----------------------------------------------------------------------------
(* Properties *)

Fetched == stage \in {"fetched", "cleaned", "resolved", "done"}
Cleaned == stage \in {"cleaned", "resolved", "done"}
Resolved == stage \in {"resolved", "done"}

\* the positions of the columns whose name holds the numeral of the i-th
\* wavelength and, in any case, the letters AOD
Candidates(df, i) ==
    {c \in 1..Len(df.columns) :
        /\ Contains(df.columns[c], Str(AodWavelengths[i]))
        /\ Contains(Upper(df.columns[c]), MarkerAOD)}

\* C1: when several columns hold a wavelength's numeral and the AOD marker,
\* extract_aod_columns binds the wavelength to the leftmost of them.
C1_LeftmostColumnWins ==
    Resolved =>
        \A i \in 1..Len(AodWavelengths) :
            Cardinality(Candidates(df_clean, i)) > 1 =>
                /\ AodWavelengths[i] \in DOMAIN aod_columns
                /\ aod_columns[AodWavelengths[i]] = df_clean.columns[Min(Candidates(df_clean, i))]

\* C2: with one caller, two consecutive calls leave _respect_rate_limit at
\* least the delay apart.
C2_ConsecutiveCallsSpaced ==
    \A i \in 1..(Len(started) - 1) : started[i + 1] - started[i] >= Delay

\* a second call came within the delay of the first, slept, and went on
C2_Witness ==
    /\ Len(started) >= 2
    /\ wake[1] # 0
    /\ started[2] = started[1] + Delay

\* C3: with callers on several threads, no two calls leave
\* _respect_rate_limit less than the delay apart.
C3_NoTwoRequestsWithinDelay ==
    \A i, j \in 1..Len(started) :
        i < j => started[j] - started[i] >= Delay

SortedByDatetime(rows) ==
    \A i \in 1..(Len(rows) - 1) : rows[i].datetime <= rows[i + 1].datetime

\* C5: a table get_aod_data returns with its timestamps resolved, and the
\* table clean_data makes of it, have their rows in ascending timestamp order.
C5_SortInvariant ==
    /\ Fetched /\ df_raw.df.has_datetime =>
          /\ SortedByDatetime(df_raw.df.rows)
          /\ \A j \in 1..Len(df_raw.df.rows) : df_raw.df.rows[j].datetime # Bad
    /\ Cleaned /\ df_clean.has_datetime => SortedByDatetime(df_clean.rows)

\* the response had its rows out of order, and both tables hold two rows
C5_Witness ==
    /\ Cleaned
    /\ df_raw.df.has_datetime
    /\ Len(df_clean.rows) >= 2
    /\ df_raw.df.rows[1].id > df_raw.df.rows[2].id
    /\ df_clean.rows[1].datetime < df_clean.rows[2].datetime

HasHeaderLine(lines) == \E i \in 1..Len(lines) : IsHeaderLine(lines[i])

FirstHeaderLine(lines) == Min({i \in 1..Len(lines) : IsHeaderLine(lines[i])})

\* C6: the first line beginning with a date-column marker is the header row,
\* at whatever index it is; the fixed offset is used only without such a line.
C6_HeaderIsFirstMarkerLine ==
    (Fetched /\ Len(response.lines) > 0 /\ HasHeaderLine(response.lines)) =>
        df_raw.df.columns =
            [i \in 1..Len(response.lines[FirstHeaderLine(response.lines)]) |->
                response.lines[FirstHeaderLine(response.lines)][i].txt]

\* C7: get_aod_data never returns a table with rows and no resolved timestamp.
C7_RowsImplyTimestamp ==
    (Fetched /\ Len(df_raw.df.rows) > 0) => df_raw.df.has_datetime

RawRow(id) ==
    df_raw.df.rows[CHOOSE j \in 1..Len(df_raw.df.rows) : df_raw.df.rows[j].id = id]

\* C8: after clean_data no cell of a numeric column holds -999; in the rows
\* that remain, a cell that held it is null and every other cell is as it was.
C8_SentinelReplaced ==
    Cleaned =>
        \A j \in 1..Len(df_clean.rows) : \A i \in 1..Len(df_clean.columns) :
            LET before == RawRow(df_clean.rows[j].id).cells[i]
                after == df_clean.rows[j].cells[i]
            IN  /\ df_clean.numeric[i] => after # NumCell(Sentinel)
                /\ (df_clean.numeric[i] /\ before = NumCell(Sentinel)) => after = NaN
                /\ before # NumCell(Sentinel) => after = before

\* a row that remains held -999 in one numeric cell and a value in another
C8_Witness ==
    /\ Cleaned
    /\ \E j \in 1..Len(df_clean.rows) : \E i, k \in 1..Len(df_clean.columns) :
          /\ RawRow(df_clean.rows[j].id).cells[i] = NumCell(Sentinel)
          /\ df_clean.rows[j].cells[i] = NaN
          /\ df_clean.rows[j].cells[k] = NumCell(1)

\* the values of the w's resolved column that are not null
NonNull(df, cols, w) ==
    LET c == ColumnIndex(df, cols[w])
    IN  SelectSeq([j \in 1..Len(df.rows) |-> df.rows[j].cells[c]], LAMBDA x : x # NaN)

IsOrdering(xs, q) ==
    /\ Injective(q)
    /\ \A i \in 1..(Len(xs) - 1) : xs[q[i]].v <= xs[q[i + 1]].v

\* twice the median of cells xs, from an ordering of them
MedianFromOrdering(xs) ==
    LET n == Len(xs)
        q == CHOOSE p \in [1..n -> 1..n] : IsOrdering(xs, p)
    IN  IF n % 2 = 1 THEN 2 * xs[q[(n + 1) \div 2]].v
        ELSE xs[q[n \div 2]].v + xs[q[n \div 2 + 1]].v

\* C9: calculate_statistics gives no statistics exactly when the wavelength
\* has no resolved column or that column has no non-null value; otherwise
\* count, min, max and median are those of the non-null values.
C9_StatisticsOverNonNull ==
    stage = "done" =>
        \A w \in WavelengthSet :
            IF w \notin DOMAIN aod_columns THEN stats[w] = NoStatistics
            ELSE LET xs == NonNull(df_clean, aod_columns, w)
                 IN  IF Len(xs) = 0 THEN stats[w] = NoStatistics
                     ELSE /\ ~stats[w].empty /\ ~stats[w].raised
                          /\ stats[w].count = Len(xs)
                          /\ \E j \in 1..Len(xs) : xs[j].v = stats[w].min
                          /\ \A j \in 1..Len(xs) : xs[j].v >= stats[w].min
                          /\ \E j \in 1..Len(xs) : xs[j].v = stats[w].max
                          /\ \A j \in 1..Len(xs) : xs[j].v <= stats[w].max
                          /\ stats[w].median_x2 = MedianFromOrdering(xs)

\* the column [0.1, 0.2, null, 0.4]: count 3, median 0.2, min 0.1, max 0.4
C9_Witness ==
    /\ stage = "done"
    /\ df_clean = Table(<<ColAOD440>>,
                        <<<<NumCell(1)>>, <<NumCell(2)>>, <<NaN>>, <<NumCell(4)>>>>)
    /\ stats[440].count = 3
    /\ stats[440].median_x2 = 4
    /\ stats[440].min = 1
    /\ stats[440].max = 4
    /\ stats[500] = NoStatistics

\* C10: an empty response body gives an empty table, which clean_data
\* returns as it is, for which extract_aod_columns gives an empty map and
\* calculate_statistics no statistics for any wavelength; nothing is raised.
\* clean_data returns any table without rows as it is, and no wavelength has
\* statistics on it.
C10_EmptyResultIsValid ==
    /\ (response.status = "ok" /\ Len(response.lines) = 0) =>
          /\ stage # "raised"
          /\ Fetched => df_raw = Returned(EmptyDataFrame)
          /\ Cleaned => df_clean = EmptyDataFrame
          /\ Resolved => DOMAIN aod_columns = {}
    /\ (Fetched /\ IsEmpty(df_raw.df)) =>
          /\ Cleaned => df_clean = df_raw.df
          /\ stage = "done" => \A w \in WavelengthSet : stats[w] = NoStatistics

\* the chain has run to its end on the empty response body
C10_Witness ==
    /\ response.status = "ok"
    /\ Len(response.lines) = 0
    /\ stage = "done"
    /\ stats[440] = NoStatistics


-----------------------------------------------------------------------------
(* The application: reruns of main() *)

\* days the date inputs range over
MaxDay == 2

Days == 1..MaxDay

\* 'aod_data' and 'download_params' of st.session_state; `keys` are the keys present
NoSession == [keys |-> {}, aod_data |-> EmptyDataFrame,
              download_params |-> [start_date |-> 0, end_date |-> 0]]

NoInputs == [start_date |-> 0, end_date |-> 0, wavelengths |-> {}, download_data |-> FALSE]

Event(ev) == [ev |-> ev, start_date |-> 0, end_date |-> 0]

\* what the measurement endpoint may answer to the application: a failure, an
\* empty body, or a header behind one metadata line with at most one row
AppResponses ==
    {[status |-> "error", lines |-> <<>>], [status |-> "ok", lines |-> <<>>]}
        \cup {[status |-> "ok", lines |-> Body(1, "dd", ms)] :
                 ms \in UNION {[1..n -> RowValues] : n \in 0..1}}

\* the date range is accepted
ValidDateRangeAny(start_date, end_date) == TRUE

\* line 127, negated: the date range is accepted
ValidDateRange(start_date, end_date) == ~(start_date > end_date)

\* the script starts over
Rerun ==
    /\ mpc = "idle"
    /\ mpc' = "sites"
    /\ run_log' = <<>>
    /\ inputs' = NoInputs
    /\ UNCHANGED <<session_state, sites_cache>>
    /\ UNCHANGED rateVars

\* the ttl of st.cache_data runs out
ExpireCache ==
    /\ mpc = "idle"
    /\ sites_cache.valid
    /\ sites_cache' = [sites_cache EXCEPT !.valid = FALSE]
    /\ UNCHANGED <<mpc, session_state, inputs, run_log>>
    /\ UNCHANGED rateVars

\* sites_df = api.get_sites_list(), and the return when it is empty
LoadSites ==
    /\ mpc = "sites"
    /\ \/ /\ sites_cache.valid
          /\ UNCHANGED sites_cache
          /\ IF sites_cache.empty
             THEN /\ run_log' = Append(run_log, Event("no_sites"))
                  /\ mpc' = "idle"
             ELSE /\ UNCHANGED run_log
                  /\ mpc' = "dates"
       \/ /\ ~sites_cache.valid
          /\ \E empty \in BOOLEAN :
                /\ sites_cache' = [valid |-> TRUE, empty |-> empty]
                /\ IF empty
                   THEN /\ run_log' = run_log \o <<Event("http_sites"), Event("no_sites")>>
                        /\ mpc' = "idle"
                   ELSE /\ run_log' = Append(run_log, Event("http_sites"))
                        /\ mpc' = "dates"
    /\ UNCHANGED <<session_state, inputs>>
    /\ UNCHANGED rateVars

\* the site and the two date inputs are read
ReadDates ==
    /\ mpc = "dates"
    /\ \E start_date, end_date \in Days :
          /\ inputs' = [inputs EXCEPT !.start_date = start_date, !.end_date = end_date]
          /\ run_log' = Append(run_log, [ev |-> "dates", start_date |-> start_date,
                                          end_date |-> end_date])
    /\ mpc' = "validate"
    /\ UNCHANGED <<session_state, sites_cache>>
    /\ UNCHANGED rateVars

\* if start_date > end_date: st.error(...); return
Validate ==
    /\ mpc = "validate"
    /\ IF ValidDateRange(inputs.start_date, inputs.end_date)
       THEN /\ mpc' = "params"
            /\ UNCHANGED run_log
       ELSE /\ mpc' = "idle"
            /\ run_log' = Append(run_log, Event("rejected"))
    /\ UNCHANGED <<session_state, inputs, sites_cache>>
    /\ UNCHANGED rateVars

\* the remaining widgets are read; without a wavelength main() returns
ReadParams ==
    /\ mpc = "params"
    /\ \E wavelengths \in {{}, {440, 500, 675}}, download_data \in BOOLEAN :
          /\ inputs' = [inputs EXCEPT !.wavelengths = wavelengths,
                                      !.download_data = download_data]
          /\ IF wavelengths = {}
             THEN /\ mpc' = "idle"
                  /\ run_log' = Append(run_log, Event("no_wavelengths"))
             ELSE /\ mpc' = "main"
                  /\ UNCHANGED run_log
    /\ UNCHANGED <<session_state, sites_cache>>
    /\ UNCHANGED rateVars

\* lines 170 and 207-209: the landing page, a download, or the stored data
MainArea ==
    /\ mpc = "main"
    /\ IF ~inputs.download_data /\ "aod_data" \notin session_state.keys
       THEN /\ mpc' = "idle"
            /\ run_log' = Append(run_log, Event("landing"))
       ELSE /\ mpc' = IF inputs.download_data THEN "download" ELSE "display"
            /\ UNCHANGED run_log
    /\ UNCHANGED <<session_state, inputs, sites_cache>>
    /\ UNCHANGED rateVars

\* lines 211-243: get_aod_data (its rate limit, then its request), the
\* return on an empty table or an exception, clean_data and the two stores.
\* The sleep of the rate limit is taken to end on time here.
Download ==
    /\ mpc = "download"
    /\ clock + Delay <= MaxTime
    /\ clock' = clock + RateLimitSleep(clock - last_request_time, Delay)
    /\ last_request_time' = clock'
    /\ started' = Append(started, clock')
    /\ UNCHANGED <<tpc, wake>>
    /\ \E resp \in AppResponses : \E r \in GetAodData(resp.status, resp.lines) :
          /\ run_log' = run_log
                \o <<[ev |-> "http_aod", start_date |-> inputs.start_date,
                      end_date |-> inputs.end_date]>>
                \o (IF r.err # "none" THEN <<Event("error")>>
                    ELSE IF IsEmpty(r.df) THEN <<Event("no_data")>> ELSE <<>>)
          /\ IF r.err # "none" \/ IsEmpty(r.df)
             THEN /\ mpc' = "idle"
                  /\ UNCHANGED session_state
             ELSE /\ mpc' = "display"
                  /\ session_state' =
                        [keys |-> session_state.keys \cup {"aod_data", "download_params"},
                         aod_data |-> CleanData(r.df),
                         download_params |-> [start_date |-> inputs.start_date,
                                              end_date |-> inputs.end_date]]
    /\ UNCHANGED <<inputs, sites_cache>>

\* lines 246-251 and what follows: the stored table is shown, unless it is empty
Display ==
    /\ mpc = "display"
    /\ run_log' = Append(run_log,
            IF IsEmpty(session_state.aod_data) THEN Event("nothing_to_display")
            ELSE Event("shown"))
    /\ mpc' = "idle"
    /\ UNCHANGED <<session_state, inputs, sites_cache>>
    /\ UNCHANGED rateVars

InitApp ==
    /\ mpc = "idle"
    /\ session_state = NoSession
    /\ inputs = NoInputs
    /\ run_log = <<>>
    /\ sites_cache = [valid |-> FALSE, empty |-> TRUE]
    /\ InitRate
    /\ InitPipeIdle
    /\ InitSitesIdle

NextApp ==
    \/ Rerun /\ UNCHANGED pipeVars /\ UNCHANGED siteVars /\ UNCHANGED call_log
    \/ ExpireCache /\ UNCHANGED pipeVars /\ UNCHANGED siteVars /\ UNCHANGED call_log
    \/ LoadSites /\ UNCHANGED pipeVars /\ UNCHANGED siteVars /\ UNCHANGED call_log
    \/ ReadDates /\ UNCHANGED pipeVars /\ UNCHANGED siteVars /\ UNCHANGED call_log
    \/ Validate /\ UNCHANGED pipeVars /\ UNCHANGED siteVars /\ UNCHANGED call_log
    \/ ReadParams /\ UNCHANGED pipeVars /\ UNCHANGED siteVars /\ UNCHANGED call_log
    \/ MainArea /\ UNCHANGED pipeVars /\ UNCHANGED siteVars /\ UNCHANGED call_log
    \/ Download /\ UNCHANGED pipeVars /\ UNCHANGED siteVars /\ UNCHANGED call_log
    \/ Display /\ UNCHANGED pipeVars /\ UNCHANGED siteVars /\ UNCHANGED call_log

SpecApp == InitApp /\ [][NextApp]_vars

IsHttp(e) == e.ev \in {"http_sites", "http_aod"}

\* C4: a rerun whose start date is later than its end date is rejected with
\* no HTTP request between the reading of the dates and the rejection, and no
\* request to the measurement endpoint carries such a date range.
C4_RejectedBeforeAnyRequest ==
    \A i \in 1..Len(run_log) :
        /\ run_log[i].ev = "http_aod" => run_log[i].start_date <= run_log[i].end_date
        /\ (run_log[i].ev = "dates" /\ run_log[i].start_date > run_log[i].end_date) =>
              /\ \A k \in (i + 1)..Len(run_log) : ~IsHttp(run_log[k])
              /\ mpc # "validate" =>
                    /\ mpc = "idle"
                    /\ Len(run_log) = i + 1
                    /\ run_log[i + 1].ev = "rejected"

\* a rerun with stored data from an earlier download was rejected for its dates
C4_Witness ==
    /\ mpc = "idle"
    /\ Len(run_log) > 0
    /\ run_log[Len(run_log)].ev = "rejected"
    /\ inputs.start_date > inputs.end_date
    /\ "aod_data" \in session_state.keys


-----------------------------------------------------------------------------
(* AeronetAPI.get_sites_list *)

\* site lines after the header in a generated directory
MaxSiteLines == 2

\* the whitespace str.strip() removes, of the characters used here
IsSpace(c) == c \in {" ", "\n"}

RECURSIVE LStrip(_)
LStrip(s) == IF Len(s) = 0 \/ ~IsSpace(Head(s)) THEN s ELSE LStrip(Tail(s))

RECURSIVE RStrip(_)
RStrip(s) == IF Len(s) = 0 \/ ~IsSpace(s[Len(s)]) THEN s ELSE RStrip(SubSeq(s, 1, Len(s) - 1))

\* str.strip
Strip(s) == RStrip(LStrip(s))

\* str.split(sep) for a separator of one character
RECURSIVE Split(_, _)
Split(s, sep) ==
    IF \A i \in 1..Len(s) : s[i] # sep THEN <<s>>
    ELSE LET i == Min({k \in 1..Len(s) : s[k] = sep})
         IN  <<SubSeq(s, 1, i - 1)>> \o Split(SubSeq(s, i + 1, Len(s)), sep)

IsDigit(c) == \E i \in 1..Len(Digits) : Digits[i] = c

DigitValue(c) == (CHOOSE i \in 1..Len(Digits) : Digits[i] = c) - 1

RECURSIVE NatOf(_)
NatOf(ds) == IF Len(ds) = 0 THEN 0
             ELSE 10 * NatOf(SubSeq(ds, 1, Len(ds) - 1)) + DigitValue(ds[Len(ds)])

\* float(s): surrounding whitespace and a sign are allowed, then digits with
\* at most one point and at least one digit; anything else is a ValueError.
\* The value is in tenths, its decimals beyond the first dropped.
ParseFloat(s) ==
    LET t == Strip(s)
        signed == Len(t) > 0 /\ t[1] \in {"-", "+"}
        u == IF signed THEN Tail(t) ELSE t
        points == {i \in 1..Len(u) : u[i] = "."}
        point == IF points = {} THEN Len(u) + 1 ELSE Min(points)
        whole == SubSeq(u, 1, point - 1)
        frac == SubSeq(u, point + 1, Len(u))
        ok == /\ Cardinality(points) <= 1
              /\ \A i \in 1..Len(u) : i \in points \/ IsDigit(u[i])
              /\ Len(whole) + Len(frac) > 0
        magnitude == 10 * NatOf(whole) + (IF Len(frac) = 0 THEN 0 ELSE DigitValue(frac[1]))
    IN  IF ok THEN [ok |-> TRUE, v |-> IF signed /\ t[1] = "-" THEN 0 - magnitude ELSE magnitude]
        ELSE [ok |-> FALSE, v |-> 0]

\* response.raise_for_status() raises HTTPError
RaisesForStatus(code) == code >= 400 /\ code < 600

\* lines 40-41: requests.get and raise_for_status raise a RequestException
SitesRequestRaises(resp) == resp.kind # "http" \/ RaisesForStatus(resp.code)

\* the dict of lines 51-56 for one line of at least 4 parts, or the
\* ValueError float() raises
SiteOfParts(parts) ==
    LET lon == ParseFloat(Strip(parts[2]))
        lat == ParseFloat(Strip(parts[3]))
        elev == IF Len(Strip(parts[4])) > 0 THEN ParseFloat(Strip(parts[4]))
                ELSE [ok |-> TRUE, v |-> 0]
    IN  [ok |-> lon.ok /\ lat.ok /\ elev.ok,
         site |-> [Site_Name |-> Strip(parts[1]), Longitude |-> lon.v,
                   Latitude |-> lat.v, Elevation |-> elev.v]]

\* the loop of lines 47-56 over lines[1:]
RECURSIVE ParseSiteLines(_, _)
ParseSiteLines(lines, sites_data) ==
    IF Len(lines) = 0 THEN [exc |-> "none", sites |-> sites_data]
    ELSE LET line == Head(lines)
             parts == Split(line, ",")
         IN  IF Len(Strip(line)) = 0 \/ Len(parts) < 4
             THEN ParseSiteLines(Tail(lines), sites_data)
             ELSE IF ~SiteOfParts(parts).ok THEN [exc |-> "ValueError", sites |-> <<>>]
             ELSE ParseSiteLines(Tail(lines), Append(sites_data, SiteOfParts(parts).site))

\* the try block of lines 39-58: the sites, or the exception raised
SitesTry(resp) ==
    IF SitesRequestRaises(resp) THEN [exc |-> "RequestException", sites |-> <<>>]
    ELSE ParseSiteLines(Tail(Split(Strip(resp.text), "\n")), <<>>)

\* an except clause for RequestException alone
CatchesRequestOnly(exc) == exc = "RequestException"

\* line 60: except Exception
CatchesException(exc) == exc # "none"

\* get_sites_list: the rows of the DataFrame returned, or the exception that
\* reaches the caller
GetSitesList(resp) ==
    LET try == SitesTry(resp)
    IN  IF try.exc = "none" THEN [raised |-> FALSE, sites |-> try.sites]
        ELSE IF CatchesException(try.exc) THEN [raised |-> FALSE, sites |-> <<>>]
        ELSE [raised |-> TRUE, sites |-> <<>>]

\* A field of a line of the directory: its characters, and what it is: a
\* number (its value in tenths), blank, or other text.
SiteField(txt, kind, v) == [txt |-> txt, kind |-> kind, v |-> v]

BlankField == SiteField(<<>>, "blank", 0)
SpaceField == SiteField(<<" ">>, "blank", 0)
TextField == SiteField(<<"x">>, "text", 0)
SiteNameField == SiteField(<<"G","S","F","C">>, "text", 0)

LonFields == {SiteField(<<"1">>, "num", 10), TextField}
LatFields == {SiteField(<<"-","7",".","5">>, "num", 0 - 75), BlankField}
ElevFields == {SiteField(<<" ","2">>, "num", 20), BlankField, SpaceField, TextField}

\* the lines a directory may hold after its header: a site with each choice
\* of its three numbers, an empty line, a line of one space, a line of three
\* fields, and a line of five
SiteLines ==
    {<<SiteNameField, lon, lat, elev>> : lon \in LonFields, lat \in LatFields, elev \in ElevFields}
        \cup {<<BlankField>>, <<SpaceField>>}
        \cup {<<SiteNameField, SiteField(<<"1">>, "num", 10), SiteField(<<"2">>, "num", 20)>>}
        \cup {<<SiteNameField, SiteField(<<"1">>, "num", 10), SiteField(<<"2">>, "num", 20),
                SiteField(<<"3">>, "num", 30), TextField>>}

SitesHeader == <<SiteField(<<"n","a","m","e">>, "text", 0), SiteField(<<"l","o","n">>, "text", 0),
                 SiteField(<<"l","a","t">>, "text", 0), SiteField(<<"e","l","e","v">>, "text", 0)>>

RECURSIVE JoinLines(_)
JoinLines(lines) ==
    IF Len(lines) = 0 THEN <<>>
    ELSE IF Len(lines) = 1 THEN JoinComma(lines[1])
    ELSE JoinComma(lines[1]) \o <<"\n">> \o JoinLines(Tail(lines))

\* the text of a directory: the header, the lines, and a last newline or none
DirectoryText(lines, newline) ==
    JoinLines(<<SitesHeader>> \o lines) \o (IF newline THEN <<"\n">> ELSE <<>>)

\* what requests.get(sites_url) may meet: no connection, an error status, or
\* a directory (or no text at all) with status 200
SiteResponses ==
    {[kind |-> "connection", code |-> 0, text |-> <<>>, lines |-> <<>>]}
        \cup {[kind |-> "http", code |-> c, text |-> DirectoryText(<<>>, TRUE), lines |-> <<>>] :
                 c \in {404, 500}}
        \cup {[kind |-> "http", code |-> 200, text |-> <<>>, lines |-> <<>>]}
        \cup {[kind |-> "http", code |-> 200, text |-> DirectoryText(ls, nl), lines |-> ls] :
                 ls \in UNION {[1..n -> SiteLines] : n \in 0..MaxSiteLines}, nl \in BOOLEAN}

\* sites_df = api.get_sites_list()
GetSites ==
    /\ sites_response # <<>>
    /\ sites_df = <<>>
    /\ sites_df' = GetSitesList(sites_response)
    /\ UNCHANGED <<sites_response, call_log>>

InitSites ==
    /\ sites_response \in SiteResponses
    /\ sites_df = <<>>
    /\ call_log = <<>>
    /\ InitRate
    /\ InitPipeIdle
    /\ InitAppIdle

NextSites == GetSites /\ UNCHANGED rateVars /\ UNCHANGED pipeVars /\ UNCHANGED appVars

SpecSites == InitSites /\ [][NextSites]_vars

\* a line that makes a site: at least 4 comma-separated fields
HasFourFields(line) == Len(line) >= 4

\* a longitude or a latitude that is not a number, or an elevation that is
\* neither blank nor a number
BadSiteLine(line) ==
    line[2].kind # "num" \/ line[3].kind # "num" \/ line[4].kind = "text"

SitesFailure(resp) ==
    \/ resp.kind # "http"
    \/ resp.code \notin 200..299
    \/ \E j \in 1..Len(resp.lines) : HasFourFields(resp.lines[j]) /\ BadSiteLine(resp.lines[j])

\* the sites of a directory, line by line, a blank elevation counting as 0
ExpectedSites(resp) ==
    LET eligible == SelectSeq(resp.lines, HasFourFields)
    IN  [j \in 1..Len(eligible) |->
            [Site_Name |-> eligible[j][1].txt, Longitude |-> eligible[j][2].v,
             Latitude |-> eligible[j][3].v, Elevation |-> eligible[j][4].v]]

\* C11: get_sites_list never raises; on a network failure or when any line
\* of at least 4 fields has a longitude, latitude or (non-blank) elevation
\* that is not a number it returns no site; otherwise it returns one site per
\* line after the header that has at least 4 fields, in order, and skips the
\* blank lines and the lines of fewer fields.
C11_SitesLoader ==
    sites_df # <<>> =>
        /\ ~sites_df.raised
        /\ IF SitesFailure(sites_response) THEN sites_df.sites = <<>>
           ELSE sites_df.sites = ExpectedSites(sites_response)

\* a directory of a good line and a line whose longitude is not a number
\* has given no site
C11_Witness ==
    /\ sites_df # <<>>
    /\ sites_df.sites = <<>>
    /\ ~sites_df.raised
    /\ Len(sites_response.lines) = 2
    /\ HasFourFields(sites_response.lines[1])
    /\ ~BadSiteLine(sites_response.lines[1])
    /\ HasFourFields(sites_response.lines[2])
    /\ sites_response.lines[2][2].kind = "text"

-----------------------------------------------------------------------------
(* Calls of get_aod_data one after another on one AeronetAPI, each with    *)
(* the outcome of its request                                              *)

\* What self.session.get may meet: no connection, a timeout, or a response
\* with a status and a body.  A 304 comes with no body.
AodOutcome(kind, code, lines) == [kind |-> kind, code |-> code, lines |-> lines]

CallOutcomes ==
    {AodOutcome("connection", 0, <<>>), AodOutcome("timeout", 0, <<>>),
     AodOutcome("http", 500, <<>>), AodOutcome("http", 304, <<>>),
     AodOutcome("http", 200, <<>>)}
        \cup {AodOutcome("http", 200, Body(1, "gmt", <<m>>)) : m \in {v \in RowValues : v.d = 1}}

\* lines 100-101: session.get or raise_for_status raises a RequestException
AodRequestRaises(o) == o.kind # "http" \/ RaisesForStatus(o.code)

\* line 100: the requests one call of get_aod_data issues
RequestsPerCall == 1

\* lines 144-149: the exception raised in place of the one caught, its
\* message ending in the text of the one caught
FailureMessage(err, o) ==
    IF err = "request"
    THEN [text |-> "Failed to fetch data", cause |-> [kind |-> o.kind, code |-> o.code]]
    ELSE IF err = "parse"
    THEN [text |-> "Failed to parse data", cause |-> [kind |-> "parse", code |-> 0]]
    ELSE [text |-> "", cause |-> [kind |-> "", code |-> 0]]

\* lines 98-149 of a call that has left _respect_rate_limit: the request,
\* and the table returned or the exception raised
Request(t) ==
    /\ tpc[t] = "request"
    /\ \E o \in CallOutcomes :
       \E r \in GetAodData(IF AodRequestRaises(o) THEN "error" ELSE "ok", o.lines) :
          call_log' = Append(call_log,
                [outcome |-> o, requests |-> RequestsPerCall, result |-> r,
                 message |-> FailureMessage(r.err, o)])
    /\ tpc' = [tpc EXCEPT ![t] = "idle"]
    /\ UNCHANGED <<clock, last_request_time, wake, started>>

NextCalls ==
    \/ Tick /\ UNCHANGED pipeVars /\ UNCHANGED appVars /\ UNCHANGED siteVars /\ UNCHANGED call_log
    \/ Call(1) /\ UNCHANGED pipeVars /\ UNCHANGED appVars /\ UNCHANGED siteVars /\ UNCHANGED call_log
    \/ ReadElapsed(1) /\ UNCHANGED pipeVars /\ UNCHANGED appVars /\ UNCHANGED siteVars /\ UNCHANGED call_log
    \/ WakeUp(1) /\ UNCHANGED pipeVars /\ UNCHANGED appVars /\ UNCHANGED siteVars /\ UNCHANGED call_log
    \/ Stamp(1) /\ UNCHANGED pipeVars /\ UNCHANGED appVars /\ UNCHANGED siteVars /\ UNCHANGED call_log
    \/ Request(1) /\ UNCHANGED pipeVars /\ UNCHANGED appVars /\ UNCHANGED siteVars

SpecCalls == InitCallers /\ [][NextCalls]_vars

\* no connection, a timeout, or a status outside 200..299
TransportFailure(o) == o.kind # "http" \/ o.code \notin 200..299

\* C12: a call of get_aod_data whose request meets a transport failure (no
\* connection, a timeout, a status that is not 2xx) raises the fetch error
\* carrying the cause, having issued exactly one request; and every call,
\* whatever the calls before it met, issues one request and gives what a
\* first call gives for the same outcome.
C12_FetchFailure ==
    \A i \in 1..Len(call_log) :
        LET c == call_log[i]
        IN  /\ c.requests = 1
            /\ c.result \in GetAodData(IF AodRequestRaises(c.outcome) THEN "error" ELSE "ok",
                                       c.outcome.lines)
            /\ TransportFailure(c.outcome) =>
                  /\ c.result.err = "request"
                  /\ c.message.cause = [kind |-> c.outcome.kind, code |-> c.outcome.code]

-----------------------------------------------------------------------------
(* Order of the rows *)

\* C13: in the table get_aod_data returns sorted, two rows of equal timestamp
\* are in the order they had in the response.
C13_StableSort ==
    (Fetched /\ df_raw.df.has_datetime) =>
        \A i, j \in 1..Len(df_raw.df.rows) :
            (i < j /\ df_raw.df.rows[i].datetime = df_raw.df.rows[j].datetime) =>
                df_raw.df.rows[i].id < df_raw.df.rows[j].id

-----------------------------------------------------------------------------
(* The session store *)

\* 'aod_data' and 'download_params' are both stored or both absent
StoredTogether ==
    ("aod_data" \in session_state.keys) <=> ("download_params" \in session_state.keys)

\* the stored table has rows
StoredTableNotEmpty ==
    "aod_data" \in session_state.keys => ~IsEmpty(session_state.aod_data)

\* a download that ended in st.error and return
DownloadGaveUp ==
    /\ mpc = "download"
    /\ mpc' = "idle"
    /\ run_log'[Len(run_log')].ev \in {"error", "no_data"}

\* C14: over the reruns of main(), 'aod_data' and 'download_params' are both
\* present or both absent, the stored table is never empty, and a download
\* that fails or returns an empty table leaves both as they were.
C14_SessionStore ==
    /\ [](StoredTogether /\ StoredTableNotEmpty)
    /\ [][DownloadGaveUp => session_state' = session_state]_vars

\* the claim without its middle part
StoredTogetherAndKept ==
    /\ []StoredTogether
    /\ [][DownloadGaveUp => session_state' = session_state]_vars

-----------------------------------------------------------------------------
(* The rows clean_data keeps *)

\* the cell is not null once -999 in a numeric column has become null
NonNullAfterReplacement(df, row, c) ==
    /\ row.cells[c] # NaN
    /\ ~(df.numeric[c] /\ row.cells[c] = NumCell(Sentinel))

\* the positions of the columns bound to a wavelength when each wavelength
\* takes the leftmost column holding its numeral and the AOD marker
LeftmostResolved(df) ==
    {Min(Candidates(df, i)) : i \in {k \in 1..Len(AodWavelengths) : Candidates(df, k) # {}}}

\* the positions of the columns extract_aod_columns binds to a wavelength
CodeResolved(df) ==
    {ColumnIndex(df, ExtractAodColumns(df)[w]) : w \in DOMAIN ExtractAodColumns(df)}

\* the index labels of the rows of df that have a non-null value in a column
\* of `resolved`, in order; of all rows when nothing is resolved
KeptLabels(df, resolved) ==
    LET keep(row) == resolved = {} \/ \E c \in resolved : NonNullAfterReplacement(df, row, c)
        kept == SelectSeq(df.rows, keep)
    IN  [j \in 1..Len(kept) |-> kept[j].id]

Labels(df) == [j \in 1..Len(df.rows) |-> df.rows[j].id]

\* the table given to clean_data is still what get_aod_data made of the response
InputUntouched == df_raw \in GetAodData(response.status, response.lines)

\* C15: the table clean_data returns holds exactly the rows of its input, in
\* their order, that have a non-null value in at least one resolved AOD
\* column after the replacement of -999 (every row when no column is
\* resolved), and the input table is left as it was.
C15_RowFilter ==
    Cleaned =>
        /\ Labels(df_clean) = KeptLabels(df_raw.df, CodeResolved(df_raw.df))
        /\ InputUntouched

\* of two rows the first, with -999 in both resolved columns, is gone and the
\* second, with -999 in one of them, is kept
C15_Witness ==
    /\ Cleaned
    /\ Cardinality(CodeResolved(df_raw.df)) = 2
    /\ Len(df_raw.df.rows) = 2
    /\ Labels(df_raw.df) = <<0, 1>>
    /\ Labels(df_clean) = <<1>>
    /\ \E c \in CodeResolved(df_raw.df) : df_clean.rows[1].cells[c] = NaN

\* the same with each wavelength bound to its leftmost column: not so when a
\* wavelength has two columns and a row has its value in the left one alone
RowFilterWithLeftmostColumns ==
    Cleaned =>
        /\ Labels(df_clean) = KeptLabels(df_raw.df, LeftmostResolved(df_raw.df))
        /\ InputUntouched

====
